---- MODULE Spec2Model ----
(***************************************************************************)
(* Natal chart web app: the Gradio callback generate_natal_chart (app.py)  *)
(* and the adapter NatalChartGenerator (natal_backend.py) around the       *)
(* kerykeion library.                                                      *)
(*                                                                         *)
(* Representation.  A Python str is a sequence of chunks (TLA+ strings);   *)
(* concatenation is \o and the empty str is << >>.  Characters the code    *)
(* inspects (' ' in a name, '-' in a date) are chunks of their own.        *)
(* An optional value (None or a value) is a sequence of length 0 or 1.     *)
(* A float the library reports is an integer count of 1/1024 (exactly      *)
(* representable in binary); a float rounded to two decimals is an integer *)
(* count of hundredths.  A character outside ASCII is written <U+hhhh>.    *)
(***************************************************************************)
EXTENDS Integers, Sequences, FiniteSets, TLC

VARIABLES
    pc,        \* position of the callback: idle, validate, parse, call, check, format, done, propagated
    args,      \* the form inputs of the current invocation
    ymd,       \* year, month, day parsed from birth_date
    calls,     \* number of generator.generate_chart calls made by this invocation
    lib,       \* what the library did in the generate_chart call of this invocation
    result,    \* the dictionary generate_chart returned
    ret,       \* the three values generate_natal_chart returned
    fs,        \* the file system: path -> content of every file written
    form       \* the location fields of the form: city dropdown, city name, latitude, longitude, timezone

vars == <<pc, args, ymd, calls, lib, result, ret, fs, form>>

None == << >>

Some(v) == <<v>>

(***************************************************************************)
(* Python string helpers                                                   *)
(***************************************************************************)

\* str.replace(a, b) where a is a one-chunk character
Replace(s, a, b) == [i \in 1..Len(s) |-> IF s[i] = a THEN b ELSE s[i]]

\* str.split(sep): the list of the parts between the separators
Split(s, sep) ==
    LET seps   == {i \in 1..Len(s) : s[i] = sep}
        n      == Cardinality(seps)
        \* the position of the j-th separator; 0 and Len(s) + 1 close the ends
        at(j)  == IF j = 0 THEN 0
                  ELSE IF j = n + 1 THEN Len(s) + 1
                  ELSE CHOOSE i \in seps : Cardinality({k \in seps : k <= i}) = j
    IN  [j \in 1..(n + 1) |-> SubSeq(s, at(j - 1) + 1, at(j) - 1)]

\* the decimal literals the form inputs of the model contain, with their values
IntLiteral == ("1990" :> 1990) @@ ("03" :> 3) @@ ("13" :> 13) @@ ("15" :> 15) @@ ("7" :> 7)

\* int(part) succeeds
IsInt(part) == Len(part) = 1 /\ part[1] \in DOMAIN IntLiteral

\* int(part)
Int_(part) == IntLiteral[part[1]]

\* str(ValueError) of int(part)
IntErrorText(part) == <<"invalid literal for int() with base 10: '">> \o part \o <<"'">>

\* str(ValueError) of unpacking n values into three names
UnpackErrorText(n) ==
    IF n < 3 THEN <<"not enough values to unpack (expected 3, got ", ToString(n), ")">>
    ELSE <<"too many values to unpack (expected 3)">>

\* year, month, day = map(int, birth_date.split('-')).  The map is lazy: the
\* unpacking converts the parts in order and looks at a fourth part, if any.
ParseDate(birth_date) ==
    LET parts == Split(birth_date, "-")
        seen  == IF Len(parts) > 3 THEN 4 ELSE Len(parts)
        bad   == {i \in 1..seen : ~IsInt(parts[i])}
        first == CHOOSE i \in bad : \A j \in bad : i <= j
    IN  IF bad # {} THEN [ok |-> FALSE, error |-> IntErrorText(parts[first]), ymd |-> << >>]
        ELSE IF Len(parts) # 3 THEN [ok |-> FALSE, error |-> UnpackErrorText(Len(parts)), ymd |-> << >>]
        ELSE [ok |-> TRUE, error |-> << >>, ymd |-> <<Int_(parts[1]), Int_(parts[2]), Int_(parts[3])>>]

\* f"{n:02d}" for a non-negative n
Fmt02d(n) == IF n < 10 THEN <<"0" , ToString(n)>> ELSE <<ToString(n)>>

(***************************************************************************)
(* Form inputs                                                             *)
(***************************************************************************)

Names == { << >>, <<"Jane", " ", "Doe">> }

BirthDates ==
    { << >>,
      <<"1990", "-", "03", "-", "15">>,
      <<"1990", "-", "13", "-", "15">>,
      <<"1990", "-", "03">>,
      <<"1990", "-", "03", "-", "15", "-", "7">>,
      <<"1990", "-", "03", "-", "15", "-", "x">>,
      <<"March", "-", "03", "-", "15">>,
      <<"1990", "/", "03", "/", "15">> }

Cities == { << >>, <<"New", " ", "York">> }

Hour == 12

Minute == 0

Latitude == <<"40.7128">>

Longitude == <<"-74.006">>

Timezone == <<"America/New_York">>

\* the values the form can submit (app.py 174-234)
FormInputs ==
    [name : Names, birth_date : BirthDates, city : Cities,
     birth_hour : {Hour}, birth_minute : {Minute},
     latitude : {Latitude}, longitude : {Longitude}, timezone : {Timezone}]

(***************************************************************************)
(* The kerykeion library, as the adapter sees it                           *)
(***************************************************************************)

ZodiacSigns ==
    <<"Aries", "Taurus", "Gemini", "Cancer", "Leo", "Virgo", "Libra",
      "Scorpio", "Sagittarius", "Capricorn", "Aquarius", "Pisces">>

\* sign values outside the tables (the library's three-letter abbreviations)
AbbreviatedSigns == <<"Ari", "Sco">>

\* every sign value the library reports in the model
SignValues == ZodiacSigns \o AbbreviatedSigns

PlanetAttrs ==
    <<"sun", "moon", "mercury", "venus", "mars", "jupiter", "saturn",
      "uranus", "neptune", "pluto">>

HouseAttrs ==
    <<"first_house", "second_house", "third_house", "fourth_house",
      "fifth_house", "sixth_house", "seventh_house", "eighth_house",
      "ninth_house", "tenth_house", "eleventh_house", "twelfth_house">>

AspectTypes == <<"conjunction", "opposition", "trine", "square", "sextile">>

\* the subjects the library computes, one per v
SubjectIds == 0..(Len(SignValues) - 1)

LibPlanet(v, k) ==
    [name       |-> PlanetAttrs[k],
     sign       |-> SignValues[((v + 3 * (k - 1)) % Len(SignValues)) + 1],
     position   |-> (v * 1000 + k * 777) % 30720,
     house      |-> HouseAttrs[((v + k) % 12) + 1],
     retrograde |-> ((v + k) % 3 = 0)]

LibHouse(v, i) ==
    [name     |-> HouseAttrs[i],
     sign     |-> SignValues[((v + 4 + i) % Len(SignValues)) + 1],
     position |-> (v * 500 + i * 2560) % 30720]

\* AstrologicalSubject(...): attribute name -> point
LibSubject(v) ==
    [a \in ({PlanetAttrs[k] : k \in 1..10} \cup {HouseAttrs[i] : i \in 1..12}) |->
        IF \E k \in 1..10 : PlanetAttrs[k] = a
        THEN LibPlanet(v, CHOOSE k \in 1..10 : PlanetAttrs[k] = a)
        ELSE LibHouse(v, CHOOSE i \in 1..12 : HouseAttrs[i] = a)]

LibAspect(v, i) ==
    [p1_name |-> PlanetAttrs[(i % 10) + 1],
     p2_name |-> PlanetAttrs[((i + 3) % 10) + 1],
     aspect  |-> AspectTypes[(i % 5) + 1],
     orbit   |-> ((i * 1357 + v * 10) % 10240) - 5120]

\* NatalAspects(subject).all_aspects with n entries
LibAllAspects(v, n) == [i \in 1..n |-> LibAspect(v, i)]

\* the most aspects the library reports in the model
MaxAspects == 11

\* where makeSVG writes when the caller names no output directory: the
\* library's default directory and its own file name for the subject
LibOutputDirs == {"~/", "./"}

LibChartPath(dir, name) ==
    IF dir = "~/" THEN <<dir>> \o name \o <<" - Natal Chart.svg">>
    ELSE <<dir>> \o name \o <<"_natal_chart.svg">>

\* the SVG file makeSVG writes for a subject: it shows the name and birth data
LibChartFile(name, y, m, d) == [kind |-> "svg", name |-> name, date |-> <<y, m, d>>]

\* the calls generate_chart makes, in order
BackendSteps ==
    <<"AstrologicalSubject", "KerykeionChartSVG", "makeSVG", "NatalAspects",
      "_get_placements", "_get_houses", "_get_aspects", "_generate_interpretation">>

\* what the library does in one generate_chart call: the subject it computes,
\* its aspects (all_aspects may be missing), where it writes the chart, and
\* the step that throws, if any (0: none)
LibBehaviours ==
    [raiseAt : {0}, v : SubjectIds, hasAllAspects : {TRUE}, n : 0..MaxAspects, dir : LibOutputDirs]
    \cup [raiseAt : {0}, v : SubjectIds, hasAllAspects : {FALSE}, n : {0}, dir : LibOutputDirs]
    \cup [raiseAt : 1..Len(BackendSteps), v : {0}, hasAllAspects : {TRUE}, n : {1}, dir : LibOutputDirs]

\* str(e) of the exception a step throws
LibErrorText(step) == <<"kerykeion error in ", BackendSteps[step]>>

\* AstrologicalSubject rejects a date that is no calendar date
ValidDate(y, m, d) == m \in 1..12 /\ d \in 1..31

DateErrorText == <<"month must be in 1..12">>

(***************************************************************************)
(* natal_backend.py: NatalChartGenerator                                   *)
(***************************************************************************)

\* round(x, 2) of the float k/1024: the nearest hundredth, ties to even
Round2(k) ==
    LET q == (100 * k) \div 1024
        r == (100 * k) % 1024
    IN  IF r < 512 THEN q
        ELSE IF r > 512 THEN q + 1
        ELSE IF q % 2 = 0 THEN q ELSE q + 1

\* the planets dictionary of _get_placements, in insertion order
PlanetKeys ==
    <<"Sun", "Moon", "Mercury", "Venus", "Mars", "Jupiter", "Saturn",
      "Uranus", "Neptune", "Pluto">>

\* the attribute of the subject each key of the planets dictionary is read from
PlanetAttrOf(key) ==
    CASE key = "Sun"     -> "sun"
      [] key = "Moon"    -> "moon"
      [] key = "Mercury" -> "mercury"
      [] key = "Venus"   -> "venus"
      [] key = "Mars"    -> "mars"
      [] key = "Jupiter" -> "jupiter"
      [] key = "Saturn"  -> "saturn"
      [] key = "Uranus"  -> "uranus"
      [] key = "Neptune" -> "neptune"
      [] key = "Pluto"   -> "pluto"

PlacementOf(planet) ==
    [sign       |-> planet.sign,
     position   |-> Round2(planet.position),
     house      |-> planet.house,
     retrograde |-> planet.retrograde]

get_placements(subject) ==
    [key \in {PlanetKeys[k] : k \in 1..Len(PlanetKeys)} |-> PlacementOf(subject[PlanetAttrOf(key)])]

\* faulty variant of HouseAttrName: the list of names is indexed one too far
HouseAttrName_OffByOne(i) ==
    (IF i = 1 THEN "first"
     ELSE IF i = 2 THEN "second"
     ELSE IF i = 3 THEN "third"
     ELSE <<"fourth", "fifth", "sixth", "seventh", "eighth", "ninth",
            "tenth", "eleventh", "twelfth", "fourth">>[i - 2]) \o "_house"

\* the attribute name the loop of _get_houses builds for i
HouseAttrName(i) ==
    (IF i = 1 THEN "first"
     ELSE IF i = 2 THEN "second"
     ELSE IF i = 3 THEN "third"
     ELSE <<"fourth", "fifth", "sixth", "seventh", "eighth", "ninth",
            "tenth", "eleventh", "twelfth">>[i - 3]) \o "_house"

HouseKey(i) == "House " \o ToString(i)

get_houses(subject) ==
    [key \in {HouseKey(i) : i \in 1..12} |->
        subject[HouseAttrName(CHOOSE i \in 1..12 : HouseKey(i) = key)].sign]

\* "Top 10 aspects"
AspectLimit == 10

AspectEntry(aspect) ==
    [planets |-> <<aspect.p1_name, " - ", aspect.p2_name>>,
     type    |-> aspect.aspect,
     orb     |-> Round2(aspect.orbit)]

\* aspect_list[:10]
Truncate(list, limit) == SubSeq(list, 1, IF Len(list) < limit THEN Len(list) ELSE limit)

\* faulty variant of get_aspects: the last ten are kept (aspect_list[-10:])
get_aspects_LastTen(aspects) ==
    LET aspect_list ==
            IF aspects.hasAllAspects
            THEN [i \in 1..Len(aspects.all_aspects) |-> AspectEntry(aspects.all_aspects[i])]
            ELSE << >>
        n == Len(aspect_list)
    IN  SubSeq(aspect_list, IF n > AspectLimit THEN n - AspectLimit + 1 ELSE 1, n)

get_aspects(aspects) ==
    LET aspect_list ==
            IF aspects.hasAllAspects
            THEN [i \in 1..Len(aspects.all_aspects) |-> AspectEntry(aspects.all_aspects[i])]
            ELSE << >>
    IN  Truncate(aspect_list, AspectLimit)

sun_interpretations ==
    [s \in {ZodiacSigns[i] : i \in 1..12} |->
        CASE s = "Aries"       -> "Bold, energetic, and pioneering. You lead with courage and initiative."
          [] s = "Taurus"      -> "Grounded, reliable, and sensual. You value stability and comfort."
          [] s = "Gemini"      -> "Curious, adaptable, and communicative. You thrive on variety and mental stimulation."
          [] s = "Cancer"      -> "Nurturing, intuitive, and protective. You lead with emotion and care deeply."
          [] s = "Leo"         -> "Confident, creative, and charismatic. You shine brightest when expressing yourself."
          [] s = "Virgo"       -> "Analytical, practical, and helpful. You excel at refining and improving."
          [] s = "Libra"       -> "Diplomatic, harmonious, and fair. You seek balance and beauty in all things."
          [] s = "Scorpio"     -> "Intense, passionate, and transformative. You dive deep into life's mysteries."
          [] s = "Sagittarius" -> "Adventurous, optimistic, and philosophical. You seek meaning and expansion."
          [] s = "Capricorn"   -> "Ambitious, disciplined, and responsible. You build lasting structures."
          [] s = "Aquarius"    -> "Innovative, independent, and humanitarian. You envision the future."
          [] s = "Pisces"      -> "Compassionate, imaginative, and spiritual. You feel deeply and dream big."]

moon_interpretations ==
    [s \in {ZodiacSigns[i] : i \in 1..12} |->
        CASE s = "Aries"       -> "Your emotions are direct and passionate. You need independence."
          [] s = "Taurus"      -> "You seek emotional security through comfort and stability."
          [] s = "Gemini"      -> "You process emotions intellectually and need variety."
          [] s = "Cancer"      -> "Deeply emotional and nurturing. Home is your sanctuary."
          [] s = "Leo"         -> "You need recognition and warmth in your emotional life."
          [] s = "Virgo"       -> "You feel secure when things are organized and useful."
          [] s = "Libra"       -> "Emotional balance comes through partnership and harmony."
          [] s = "Scorpio"     -> "Your emotions run deep and intense. You crave intimacy."
          [] s = "Sagittarius" -> "Emotional freedom and adventure feed your soul."
          [] s = "Capricorn"   -> "You find security through achievement and structure."
          [] s = "Aquarius"    -> "You need emotional space and intellectual connection."
          [] s = "Pisces"      -> "Ultra-sensitive and empathic. You absorb others' feelings."]

rising_interpretations ==
    [s \in {ZodiacSigns[i] : i \in 1..12} |->
        CASE s = "Aries"       -> "You come across as bold, direct, and energetic."
          [] s = "Taurus"      -> "You appear calm, steady, and approachable."
          [] s = "Gemini"      -> "You seem curious, talkative, and youthful."
          [] s = "Cancer"      -> "You give off a caring, protective vibe."
          [] s = "Leo"         -> "You have a warm, confident, magnetic presence."
          [] s = "Virgo"       -> "You appear helpful, modest, and detail-oriented."
          [] s = "Libra"       -> "You come across as charming, diplomatic, and refined."
          [] s = "Scorpio"     -> "You have an intense, mysterious, magnetic aura."
          [] s = "Sagittarius" -> "You seem optimistic, adventurous, and frank."
          [] s = "Capricorn"   -> "You appear serious, responsible, and composed."
          [] s = "Aquarius"    -> "You seem unique, friendly, and unconventional."
          [] s = "Pisces"      -> "You give off a gentle, dreamy, compassionate vibe."]

\* dict.get(key, default)
Get(table, key, default) == IF key \in DOMAIN table THEN table[key] ELSE default

\* faulty variant of generate_interpretation: the rising text is looked up
\* with the Sun sign
generate_interpretation_RisingFromSun(subject) ==
    LET sun_sign    == subject["sun"].sign
        moon_sign   == subject["moon"].sign
        rising_sign == subject["sun"].sign
    IN  [sun    |-> <<"<U+2609> **Sun in ", sun_sign, "**: ",
                      Get(sun_interpretations, sun_sign, "Your core identity.")>>,
         moon   |-> <<"<U+263D> **Moon in ", moon_sign, "**: ",
                      Get(moon_interpretations, moon_sign, "Your emotional nature.")>>,
         rising |-> <<"<U+2191> **Rising ", rising_sign, "**: ",
                      Get(rising_interpretations, rising_sign, "How others see you.")>>]

generate_interpretation(subject) ==
    LET sun_sign    == subject["sun"].sign
        moon_sign   == subject["moon"].sign
        rising_sign == subject["first_house"].sign
    IN  [sun    |-> <<"<U+2609> **Sun in ", sun_sign, "**: ",
                      Get(sun_interpretations, sun_sign, "Your core identity.")>>,
         moon   |-> <<"<U+263D> **Moon in ", moon_sign, "**: ",
                      Get(moon_interpretations, moon_sign, "Your emotional nature.")>>,
         rising |-> <<"<U+2191> **Rising ", rising_sign, "**: ",
                      Get(rising_interpretations, rising_sign, "How others see you.")>>]

\* the dictionary of the except branch
FailureDict(error) ==
    [success |-> FALSE,
     error   |-> error,
     message |-> <<"Failed to generate natal chart", ". Please check your input data.">>]

\* faulty variant of BackendTryCovers: the subject is created before the try block
BackendTryCovers_SubjectOutside(step) == step \in 2..Len(BackendSteps)

\* whether the try block of generate_chart covers a step (BackendSteps index)
BackendTryCovers(step) == step \in 1..Len(BackendSteps)

\* str(self.output_dir / f"{name.replace(' ', '_')}_chart.svg")
SvgPath(name) == <<"output", "/">> \o Replace(name, " ", "_") \o <<"_chart.svg">>

\* generate_chart with the library behaving as b, on the files `files`: whether
\* it raised, str(e) of the exception thrown inside it (if any), the dictionary
\* returned, the files after
generate_chart(a, y, m, d, b, files) ==
    LET failAt   == IF ~ValidDate(y, m, d) THEN 1 ELSE b.raiseAt
        error    == IF ~ValidDate(y, m, d) THEN DateErrorText ELSE LibErrorText(b.raiseAt)
        subject  == LibSubject(b.v)
        aspects  == [hasAllAspects |-> b.hasAllAspects, all_aspects |-> LibAllAspects(b.v, b.n)]
        \* chart.makeSVG() (step 3) has written the file once a later step runs
        written  == failAt = 0 \/ failAt > 3
        files2   == IF written
                    THEN (LibChartPath(b.dir, a.name) :> LibChartFile(a.name, y, m, d)) @@ files
                    ELSE files
        chart_data ==
            [success        |-> TRUE,
             name           |-> a.name,
             birth_data     |-> [date     |-> <<ToString(y), "-">> \o Fmt02d(m) \o <<"-">> \o Fmt02d(d),
                                 time     |-> Fmt02d(a.birth_hour) \o <<":">> \o Fmt02d(a.birth_minute),
                                 location |-> IF a.city # << >> THEN a.city
                                              ELSE a.latitude \o <<", ">> \o a.longitude,
                                 timezone |-> a.timezone],
             placements     |-> get_placements(subject),
             houses         |-> get_houses(subject),
             aspects        |-> get_aspects(aspects),
             chart_svg      |-> SvgPath(a.name),
             interpretation |-> generate_interpretation(subject)]
    IN  IF failAt = 0
        THEN [raised |-> FALSE, thrown |-> None, value |-> chart_data, fs |-> files2]
        ELSE IF BackendTryCovers(failAt)
        THEN [raised |-> FALSE, thrown |-> Some(error), value |-> FailureDict(error), fs |-> files2]
        ELSE [raised |-> TRUE, thrown |-> Some(error), value |-> [none |-> TRUE], fs |-> files2]

(***************************************************************************)
(* app.py: formatting                                                      *)
(***************************************************************************)

\* str(x) of a float of h hundredths: sign, integer part, '.', one digit
\* chunk per fraction digit (the shortest that reads back)
FloatRepr(h) ==
    LET a == IF h < 0 THEN -h ELSE h
        f == a % 100
    IN  (IF h < 0 THEN <<"-">> ELSE << >>)
        \o <<ToString(a \div 100), ".">>
        \o (IF f % 10 = 0 THEN <<ToString(f \div 10)>>
            ELSE <<ToString(f \div 10), ToString(f % 10)>>)

\* the keys of a dictionary in insertion order, given the order they were inserted in
Items(d, order) == SelectSeq(order, LAMBDA k : k \in DOMAIN d)

RECURSIVE Concat(_)
\* ''.join(list)
Concat(list) == IF list = << >> THEN << >> ELSE Head(list) \o Concat(Tail(list))

\* "Top 5"
DisplayLimit == 5

PlacementLine(planet, data) ==
    <<"**", planet, "**: ", data.sign, " at ">> \o FloatRepr(data.position)
    \o <<"<U+00B0> (House ", data.house, ")">>
    \o (IF data.retrograde THEN <<" <U+211E>">> ELSE << >>)
    \o <<"\n", "\n">>

AspectLine(aspect) ==
    <<"- ">> \o aspect.planets \o <<": ", aspect.type, " (orb ">> \o FloatRepr(aspect.orb)
    \o <<"<U+00B0>)", "\n">>

AspectsHeading == <<"\n", "---", "\n", "\n", "## <U+1F517> Major Aspects", "\n", "\n">>

format_interpretation(res) ==
    LET interp     == res.interpretation
        placements == res.placements
        keys       == Items(placements, PlanetKeys)
        aspects    == IF "aspects" \in DOMAIN res THEN res.aspects ELSE << >>
        shown      == Truncate(aspects, DisplayLimit)
    IN  <<"\n", "# <U+1F31F> Natal Chart for ">> \o res.name \o <<"\n", "\n",
          "## Birth Information", "\n",
          "<U+1F4C5> **Date**: ">> \o res.birth_data.date \o <<"  ", "\n",
          "<U+1F550> **Time**: ">> \o res.birth_data.time \o <<"  ", "\n",
          "<U+1F4CD> **Location**: ">> \o res.birth_data.location \o <<"  ", "\n",
          "<U+1F30D> **Timezone**: ">> \o res.birth_data.timezone \o <<"\n", "\n",
          "---", "\n", "\n",
          "## <U+2728> Your Core Identity (Big Three)", "\n", "\n">>
        \o interp.sun \o <<"\n", "\n">>
        \o interp.moon \o <<"\n", "\n">>
        \o interp.rising \o <<"\n", "\n",
          "---", "\n", "\n",
          "## <U+1FA90> Planetary Placements", "\n", "\n">>
        \o Concat([k \in 1..Len(keys) |-> PlacementLine(keys[k], placements[keys[k]])])
        \o (IF aspects # << >>
            THEN AspectsHeading \o Concat([k \in 1..Len(shown) |-> AspectLine(shown[k])])
            ELSE << >>)

(***************************************************************************)
(* json.dumps.  The text is the sequence of JSON tokens; the white space   *)
(* indent=2 puts between tokens carries no meaning and is left out.        *)
(***************************************************************************)

\* ensure_ascii: a character outside ASCII becomes its \u escape
JsonEscape(c) ==
    CASE c = "<U+2609> **Sun in "  -> "\\u2609 **Sun in "
      [] c = "<U+263D> **Moon in " -> "\\u263d **Moon in "
      [] c = "<U+2191> **Rising "  -> "\\u2191 **Rising "
      [] OTHER -> c

JsonString(s) == <<"\"">> \o [i \in 1..Len(s) |-> JsonEscape(s[i])] \o <<"\"">>

JsonBool(b) == IF b THEN <<"true">> ELSE <<"false">>

RECURSIVE JsonJoin(_)
JsonJoin(list) ==
    IF list = << >> THEN << >>
    ELSE IF Len(list) = 1 THEN Head(list)
    ELSE Head(list) \o <<",">> \o JsonJoin(Tail(list))

\* an object from its members, a sequence of <<key, text of the value>>
JsonObject(members) ==
    <<"{">> \o JsonJoin([i \in 1..Len(members) |->
                            JsonString(<<members[i][1]>>) \o <<":">> \o members[i][2]])
    \o <<"}">>

JsonArray(values) == <<"[">> \o JsonJoin(values) \o <<"]">>

HouseKeys == [i \in 1..12 |-> HouseKey(i)]

JsonPlacement(p) ==
    JsonObject(<< <<"sign", JsonString(<<p.sign>>)>>,
                  <<"position", FloatRepr(p.position)>>,
                  <<"house", JsonString(<<p.house>>)>>,
                  <<"retrograde", JsonBool(p.retrograde)>> >>)

JsonAspect(a) ==
    JsonObject(<< <<"planets", JsonString(a.planets)>>,
                  <<"type", JsonString(<<a.type>>)>>,
                  <<"orb", FloatRepr(a.orb)>> >>)

\* the text of each value of the result dictionary, by key
JsonField(res, key) ==
    CASE key = "success" -> JsonBool(res.success)
      [] key \in {"name", "error", "message", "chart_svg"} -> JsonString(res[key])
      [] key = "birth_data" ->
            JsonObject(<< <<"date", JsonString(res.birth_data.date)>>,
                          <<"time", JsonString(res.birth_data.time)>>,
                          <<"location", JsonString(res.birth_data.location)>>,
                          <<"timezone", JsonString(res.birth_data.timezone)>> >>)
      [] key = "placements" ->
            LET keys == Items(res.placements, PlanetKeys)
            IN  JsonObject([k \in 1..Len(keys) |-> <<keys[k], JsonPlacement(res.placements[keys[k]])>>])
      [] key = "houses" ->
            LET keys == Items(res.houses, HouseKeys)
            IN  JsonObject([k \in 1..Len(keys) |-> <<keys[k], JsonString(<<res.houses[keys[k]]>>)>>])
      [] key = "aspects" ->
            JsonArray([k \in 1..Len(res.aspects) |-> JsonAspect(res.aspects[k])])
      [] key = "interpretation" ->
            JsonObject(<< <<"sun", JsonString(res.interpretation.sun)>>,
                          <<"moon", JsonString(res.interpretation.moon)>>,
                          <<"rising", JsonString(res.interpretation.rising)>> >>)

\* the keys of the dictionaries generate_chart builds, in insertion order
ResultKeys ==
    <<"success", "name", "birth_data", "placements", "houses", "aspects",
      "chart_svg", "interpretation", "error", "message">>

\* json.dumps(result, indent=2)
JsonDumps(res) ==
    LET keys == Items(res, ResultKeys)
    IN  JsonObject([k \in 1..Len(keys) |-> <<keys[k], JsonField(res, keys[k])>>])

format_detailed_data(res) == JsonDumps(res)

(***************************************************************************)
(* Reading JSON: whether a text is one JSON value                          *)
(***************************************************************************)

DigitChunks == {ToString(n) : n \in 0..99}

Least(S) == CHOOSE x \in S : \A y \in S : x <= y

\* the index after the string that starts at i, 0 if none does
JsonStringEnd(s, i) ==
    IF i <= Len(s) /\ s[i] = "\""
    THEN LET closes == {j \in (i + 1)..Len(s) : s[j] = "\""}
         IN  IF closes = {} THEN 0 ELSE Least(closes) + 1
    ELSE 0

\* the index after the digits that start at i (i itself if none does)
DigitsEnd(s, i) ==
    LET stops == {j \in i..Len(s) : s[j] \notin DigitChunks}
    IN  IF stops = {} THEN Len(s) + 1 ELSE Least(stops)

\* the index after the number that starts at i, 0 if none does
JsonNumberEnd(s, i) ==
    LET i1 == IF i <= Len(s) /\ s[i] = "-" THEN i + 1 ELSE i
        i2 == DigitsEnd(s, i1)
        i3 == DigitsEnd(s, i2 + 1)
    IN  IF i2 = i1 THEN 0
        ELSE IF i2 <= Len(s) /\ s[i2] = "." THEN (IF i3 = i2 + 1 THEN 0 ELSE i3)
        ELSE i2

RECURSIVE JsonValueEnd(_, _), JsonMembersEnd(_, _), JsonElementsEnd(_, _)

\* the index after the value that starts at i, 0 if none does
JsonValueEnd(s, i) ==
    IF i > Len(s) THEN 0
    ELSE CASE s[i] = "{" -> IF i + 1 <= Len(s) /\ s[i + 1] = "}" THEN i + 2 ELSE JsonMembersEnd(s, i + 1)
           [] s[i] = "[" -> IF i + 1 <= Len(s) /\ s[i + 1] = "]" THEN i + 2 ELSE JsonElementsEnd(s, i + 1)
           [] s[i] = "\"" -> JsonStringEnd(s, i)
           [] s[i] \in {"true", "false", "null"} -> i + 1
           [] OTHER -> JsonNumberEnd(s, i)

\* the index after the '}' that closes the members that start at i, 0 if none does
JsonMembersEnd(s, i) ==
    LET k == JsonStringEnd(s, i)
        v == IF k = 0 \/ k > Len(s) \/ s[k] # ":" THEN 0 ELSE JsonValueEnd(s, k + 1)
    IN  IF v = 0 \/ v > Len(s) THEN 0
        ELSE IF s[v] = "," THEN JsonMembersEnd(s, v + 1)
        ELSE IF s[v] = "}" THEN v + 1
        ELSE 0

\* the index after the ']' that closes the elements that start at i, 0 if none does
JsonElementsEnd(s, i) ==
    LET v == JsonValueEnd(s, i)
    IN  IF v = 0 \/ v > Len(s) THEN 0
        ELSE IF s[v] = "," THEN JsonElementsEnd(s, v + 1)
        ELSE IF s[v] = "]" THEN v + 1
        ELSE 0

\* json.loads(s) succeeds
IsJson(s) == s # << >> /\ JsonValueEnd(s, 1) = Len(s) + 1

(***************************************************************************)
(* app.py: the location fields of the form and fill_city_coords            *)
(***************************************************************************)

\* city -> (latitude, longitude, timezone); a float is its repr
COMMON_CITIES ==
    [c \in {"New York, USA", "Los Angeles, USA", "London, UK", "Paris, France",
            "Tokyo, Japan", "Sydney, Australia", "Berlin, Germany", "Rome, Italy",
            "Madrid, Spain", "Lisbon, Portugal", "Dubai, UAE", "Singapore",
            "Hong Kong", "Mumbai, India", "S<U+00E3>o Paulo, Brazil"} |->
        CASE c = "New York, USA"            -> << <<"40.7128">>, <<"-74.006">>, <<"America/New_York">> >>
          [] c = "Los Angeles, USA"         -> << <<"34.0522">>, <<"-118.2437">>, <<"America/Los_Angeles">> >>
          [] c = "London, UK"               -> << <<"51.5074">>, <<"-0.1278">>, <<"Europe/London">> >>
          [] c = "Paris, France"            -> << <<"48.8566">>, <<"2.3522">>, <<"Europe/Paris">> >>
          [] c = "Tokyo, Japan"             -> << <<"35.6762">>, <<"139.6503">>, <<"Asia/Tokyo">> >>
          [] c = "Sydney, Australia"        -> << <<"-33.8688">>, <<"151.2093">>, <<"Australia/Sydney">> >>
          [] c = "Berlin, Germany"          -> << <<"52.52">>, <<"13.405">>, <<"Europe/Berlin">> >>
          [] c = "Rome, Italy"              -> << <<"41.9028">>, <<"12.4964">>, <<"Europe/Rome">> >>
          [] c = "Madrid, Spain"            -> << <<"40.4168">>, <<"-3.7038">>, <<"Europe/Madrid">> >>
          [] c = "Lisbon, Portugal"         -> << <<"38.7223">>, <<"-9.1393">>, <<"Europe/Lisbon">> >>
          [] c = "Dubai, UAE"               -> << <<"25.2048">>, <<"55.2708">>, <<"Asia/Dubai">> >>
          [] c = "Singapore"                -> << <<"1.3521">>, <<"103.8198">>, <<"Asia/Singapore">> >>
          [] c = "Hong Kong"                -> << <<"22.3193">>, <<"114.1694">>, <<"Asia/Hong_Kong">> >>
          [] c = "Mumbai, India"            -> << <<"19.076">>, <<"72.8777">>, <<"Asia/Kolkata">> >>
          [] c = "S<U+00E3>o Paulo, Brazil" -> << <<"-23.5505">>, <<"-46.6333">>, <<"America/Sao_Paulo">> >>]

\* a faulty variant: the fallback leaves the selection as the city name
fill_city_coords_KeepsSelection(city_selection) ==
    IF city_selection \in DOMAIN COMMON_CITIES
    THEN [latitude  |-> COMMON_CITIES[city_selection][1],
          longitude |-> COMMON_CITIES[city_selection][2],
          timezone  |-> COMMON_CITIES[city_selection][3],
          city      |-> <<city_selection>>]
    ELSE [latitude |-> <<"0.0">>, longitude |-> <<"0.0">>, timezone |-> <<"UTC">>,
          city |-> <<city_selection>>]

\* the four values fill_city_coords returns
fill_city_coords(city_selection) ==
    IF city_selection \in DOMAIN COMMON_CITIES
    THEN [latitude  |-> COMMON_CITIES[city_selection][1],
          longitude |-> COMMON_CITIES[city_selection][2],
          timezone  |-> COMMON_CITIES[city_selection][3],
          city      |-> <<city_selection>>]
    ELSE [latitude |-> <<"0.0">>, longitude |-> <<"0.0">>, timezone |-> <<"UTC">>, city |-> << >>]

\* the list get_timezone_suggestions returns (natal_backend.py)
get_timezone_suggestions ==
    << <<"America/New_York">>, <<"America/Chicago">>, <<"America/Denver">>,
       <<"America/Los_Angeles">>, <<"America/Phoenix">>, <<"America/Anchorage">>,
       <<"Pacific/Honolulu">>, <<"Europe/London">>, <<"Europe/Paris">>,
       <<"Europe/Berlin">>, <<"Europe/Rome">>, <<"Europe/Madrid">>,
       <<"Europe/Lisbon">>, <<"Asia/Tokyo">>, <<"Asia/Shanghai">>,
       <<"Asia/Hong_Kong">>, <<"Asia/Singapore">>, <<"Asia/Dubai">>,
       <<"Asia/Kolkata">>, <<"Australia/Sydney">>, <<"Australia/Melbourne">>,
       <<"Pacific/Auckland">> >>

\* choices of the city dropdown: "Custom Location" and the keys of COMMON_CITIES
CityChoices == {"Custom Location"} \cup DOMAIN COMMON_CITIES

\* choices of the timezone dropdown
TimezoneChoices == {get_timezone_suggestions[i] : i \in 1..Len(get_timezone_suggestions)}

\* the values the components are built with
InitialForm ==
    [city_dropdown |-> "Custom Location",
     city          |-> << >>,
     latitude      |-> Latitude,
     longitude     |-> Longitude,
     timezone      |-> Timezone]

\* values the user types into the latitude, longitude and city fields
TypedLatitudes == { <<"-12.5">> }

TypedLongitudes == { <<"100.25">> }

\* city_dropdown.change: the selection changed; fill_city_coords writes
\* latitude, longitude, timezone and city_input
CityChange ==
    /\ \E sel \in CityChoices :
         /\ sel # form.city_dropdown
         /\ LET out == fill_city_coords(sel)
            IN  form' = [city_dropdown |-> sel,
                         city          |-> out.city,
                         latitude      |-> out.latitude,
                         longitude     |-> out.longitude,
                         timezone      |-> out.timezone]
    /\ UNCHANGED <<pc, args, ymd, calls, lib, result, ret, fs>>

\* the user picks one of the choices of the timezone dropdown
PickTimezone ==
    /\ \E tz \in TimezoneChoices : tz # form.timezone /\ form' = [form EXCEPT !.timezone = tz]
    /\ UNCHANGED <<pc, args, ymd, calls, lib, result, ret, fs>>

\* the user types a latitude
TypeLatitude ==
    /\ \E x \in TypedLatitudes : x # form.latitude /\ form' = [form EXCEPT !.latitude = x]
    /\ UNCHANGED <<pc, args, ymd, calls, lib, result, ret, fs>>

\* the user types a longitude
TypeLongitude ==
    /\ \E x \in TypedLongitudes : x # form.longitude /\ form' = [form EXCEPT !.longitude = x]
    /\ UNCHANGED <<pc, args, ymd, calls, lib, result, ret, fs>>

\* the user types a city name
TypeCity ==
    /\ \E c \in Cities : c # form.city /\ form' = [form EXCEPT !.city = c]
    /\ UNCHANGED <<pc, args, ymd, calls, lib, result, ret, fs>>

(***************************************************************************)
(* app.py: generate_natal_chart, one action per step of the callback       *)
(***************************************************************************)

NoLib == [called |-> FALSE, raised |-> FALSE, thrown |-> None]

NoResult == [none |-> TRUE]

NoReturn == [returned |-> FALSE]

Return3(text, chart, detail) == [returned |-> TRUE, text |-> text, chart |-> chart, detail |-> detail]

\* return "<U+274C> Please provide your name and birth date.", None, "Missing required fields"
MissingReturn ==
    Return3(<<"<U+274C>", " Please provide your name and birth date.">>, None,
            <<"Missing required fields">>)

\* return f"<U+274C> Error: {error_msg}", None, json.dumps(result, indent=2)
FailureReturn(res) ==
    Return3(<<"<U+274C>", " Error: ">> \o Get(res, "error", <<"Unknown error">>), None,
            JsonDumps(res))

\* except Exception as e: return f"<U+274C> Error: {str(e)}", None, str(e)
ExceptReturn(error) == Return3(<<"<U+274C>", " Error: ">> \o error, None, error)

\* return interpretation, chart_path, detailed_data
SuccessReturn(res) ==
    Return3(format_interpretation(res),
            IF "chart_svg" \in DOMAIN res THEN Some(res.chart_svg) ELSE None,
            format_detailed_data(res))

\* faulty variant of MissingFields: only the name is checked
MissingFields_NameOnly(a) == a.name = << >>

\* if not name or not birth_date
MissingFields(a) == a.name = << >> \/ a.birth_date = << >>

\* faulty variant of AppTryCovers: the date is parsed before the try block
AppTryCovers_ParseOutside(step) == step \in {"call", "check", "format"}

\* the steps of generate_natal_chart the try block covers
AppTryCovers(step) == step \in {"parse", "call", "check", "format"}

\* result.get("success") is truthy
Succeeded(res) == "success" \in DOMAIN res /\ res.success

\* the generate button is clicked with the form's inputs
Click ==
    /\ pc \in {"idle", "propagated"}
    /\ \E a \in FormInputs : args' = a
    /\ pc' = "validate"
    /\ ymd' = << >>
    /\ calls' = 0
    /\ lib' = NoLib
    /\ result' = NoResult
    /\ ret' = NoReturn
    /\ UNCHANGED <<fs, form>>

Validate ==
    /\ pc = "validate"
    /\ IF MissingFields(args)
       THEN pc' = "done" /\ ret' = MissingReturn
       ELSE pc' = "parse" /\ UNCHANGED ret
    /\ UNCHANGED <<args, ymd, calls, lib, result, fs, form>>

Parse ==
    /\ pc = "parse"
    /\ LET p == ParseDate(args.birth_date)
       IN  IF p.ok THEN pc' = "call" /\ ymd' = p.ymd /\ UNCHANGED ret
           ELSE IF AppTryCovers("parse") THEN pc' = "done" /\ ret' = ExceptReturn(p.error) /\ UNCHANGED ymd
           ELSE pc' = "propagated" /\ UNCHANGED <<ymd, ret>>
    /\ UNCHANGED <<args, calls, lib, result, fs, form>>

Call ==
    /\ pc = "call"
    /\ \E b \in LibBehaviours :
         LET out == generate_chart(args, ymd[1], ymd[2], ymd[3], b, fs)
         IN  /\ lib' = [called |-> TRUE, behaviour |-> b, raised |-> out.raised, thrown |-> out.thrown]
             /\ fs' = out.fs
             /\ calls' = calls + 1
             /\ IF ~out.raised THEN pc' = "check" /\ result' = out.value /\ UNCHANGED ret
                ELSE IF AppTryCovers("call")
                     THEN pc' = "done" /\ ret' = ExceptReturn(out.thrown[1]) /\ UNCHANGED result
                ELSE pc' = "propagated" /\ UNCHANGED <<result, ret>>
    /\ UNCHANGED <<args, ymd, form>>

Check ==
    /\ pc = "check"
    /\ IF ~Succeeded(result)
       THEN pc' = "done" /\ ret' = FailureReturn(result)
       ELSE pc' = "format" /\ UNCHANGED ret
    /\ UNCHANGED <<args, ymd, calls, lib, result, fs, form>>

Format ==
    /\ pc = "format"
    /\ pc' = "done"
    /\ ret' = SuccessReturn(result)
    /\ UNCHANGED <<args, ymd, calls, lib, result, fs, form>>

\* the three values go to the output components; the form waits for the next click
Return ==
    /\ pc = "done"
    /\ pc' = "idle"
    /\ UNCHANGED <<args, ymd, calls, lib, result, ret, fs, form>>

\* after the module is loaded: NatalChartGenerator() has made the output
\* directory, nothing has been written and no click has happened
Init ==
    /\ pc = "idle"
    /\ args = [none |-> TRUE]
    /\ ymd = << >>
    /\ calls = 0
    /\ lib = NoLib
    /\ result = NoResult
    /\ ret = NoReturn
    /\ fs = << >>
    /\ form = InitialForm

Next == Click \/ Validate \/ Parse \/ Call \/ Check \/ Format \/ Return

Spec == Init /\ [][Next]_vars

\* the location fields alone: the city dropdown changes and the user edits
FormNext == CityChange \/ PickTimezone \/ TypeLatitude \/ TypeLongitude \/ TypeCity

FormSpec == Init /\ [][FormNext]_vars

(***************************************************************************)
(* Properties                                                              *)
(***************************************************************************)

\* name or birth_date is empty or missing
FieldMissing == args.name = << >> \/ args.birth_date = << >>

\* birth_date is three decimal integers separated by '-'
DateIsThreeInts ==
    \E y, m, d \in DOMAIN IntLiteral : args.birth_date = <<y, "-", m, "-", d>>

\* the invocation has returned its three values
Returned == pc = "done"

\* the invocation went down the success path
OnSuccessPath == lib.called /\ ~lib.raised /\ Succeeded(result)

\* C1 (as amended): validation of name and birth_date comes first; with one of
\* them empty the invocation returns the 'Please provide your name and birth
\* date.' message with no chart and never calls generate_chart; with both
\* present and a birth_date of three integers generate_chart is called exactly
\* once; with both present and any other birth_date it is never called and the
\* error of the parse is returned; the result is formatted only after the
\* call has returned.
C1_ValidateThenCallOnce ==
    /\ calls <= 1
    /\ (pc \in {"parse", "call", "check", "format"} => ~FieldMissing)
    /\ (Returned /\ FieldMissing =>
            /\ calls = 0
            /\ ret.text = <<"<U+274C>", " Please provide your name and birth date.">>
            /\ ret.chart = None)
    /\ (Returned /\ ~FieldMissing /\ DateIsThreeInts => calls = 1)
    /\ (Returned /\ ~FieldMissing /\ ~DateIsThreeInts =>
            calls = 0 /\ ret.text[1] = "<U+274C>" /\ ret.chart = None)
    /\ (pc = "format" => calls = 1 /\ lib.called /\ "success" \in DOMAIN result)
    /\ (Returned /\ ret.chart # None => calls = 1 /\ "success" \in DOMAIN result)

\* C1 witness: both fields present, the date parsed, generate_chart was called
\* once and the formatted result was returned
C1_Witness == Returned /\ ~FieldMissing /\ DateIsThreeInts /\ calls = 1 /\ ret.chart # None

\* C1 as stated: whenever name and birth_date are both present, generate_chart
\* is called exactly once in the invocation
C1_Original == Returned /\ ~FieldMissing => calls = 1

\* C2: no exception reaches the UI; every invocation returns three values; on
\* every path but success the first starts with the cross mark and the chart is
\* None; when the backend reports success false the first value is the cross
\* mark, ' Error: ' and the backend's error text.
C2_NeverPropagates ==
    /\ pc # "propagated"
    /\ (Returned => DOMAIN ret = {"returned", "text", "chart", "detail"} /\ ret.returned)
    /\ (Returned /\ ~OnSuccessPath => ret.text[1] = "<U+274C>" /\ ret.chart = None)
    /\ (Returned /\ lib.called /\ ~lib.raised /\ ~Succeeded(result) =>
            ret.text = <<"<U+274C>", " Error: ">> \o result.error)

\* C2 witness: a malformed birth_date was submitted and the invocation returned
C2_Witness == Returned /\ ~FieldMissing /\ ~DateIsThreeInts /\ ret.text[1] = "<U+274C>"

\* C2 second case reached: the backend reported success false and the invocation returned
C2_BackendFailureReached == Returned /\ lib.called /\ ~Succeeded(result)

\* C3 as stated: the third value returned is a JSON text on every return path,
\* and on the success path it is the serialisation of the whole result
C3_ThirdIsJson ==
    Returned => /\ IsJson(ret.detail)
                /\ (OnSuccessPath => ret.detail = JsonDumps(result))

\* C3 on the paths where it holds: after a backend failure and on success the
\* third value is a JSON text
C3_JsonAfterCall ==
    Returned /\ lib.called /\ ~lib.raised => IsJson(ret.detail)

\* C4 as stated: on the success path the second value returned is the path of
\* the SVG file the chart step of this invocation wrote: a file exists there
\* and it is the file makeSVG produced for the subject
C4_ChartFileExists ==
    Returned /\ OnSuccessPath =>
        /\ ret.chart # None
        /\ ret.chart[1] \in DOMAIN fs
        /\ fs[ret.chart[1]] = LibChartFile(args.name, ymd[1], ymd[2], ymd[3])

\* C4, what the code does: the path returned is output/<name>_chart.svg, and
\* the file makeSVG wrote is elsewhere
C4_ReturnedPathIsNotTheFile ==
    Returned /\ OnSuccessPath =>
        /\ ret.chart = Some(<<"output", "/", "Jane", "_", "Doe", "_chart.svg">>)
        /\ ret.chart[1] \notin DOMAIN fs
        /\ \E p \in DOMAIN fs : fs[p] = LibChartFile(args.name, ymd[1], ymd[2], ymd[3])

\* C5 as stated: no invocation stores anything: the file system holds nothing
\* derived from a submitted name or birth date
C5_NothingStored == DOMAIN fs = {}

\* C6 as stated: the dictionary generate_chart returns has the keys its
\* docstring names
C6_DocumentedKeys ==
    pc = "check" /\ Succeeded(result) =>
        {"subject_data", "chart_svg_path", "interpretation", "aspects"} \subseteq DOMAIN result

\* C7: generate_chart never raises.  An exception thrown inside it becomes a
\* dictionary with success false, error the exception's text and the fixed
\* message, without chart_svg, placements or interpretation; every dictionary
\* returned has a success key, true only with all seven fields present.
C7_BackendNeverRaises ==
    lib.called =>
        /\ ~lib.raised
        /\ "success" \in DOMAIN result
        /\ (lib.thrown # None =>
                /\ DOMAIN result = {"success", "error", "message"}
                /\ result.success = FALSE
                /\ result.error = lib.thrown[1]
                /\ result.message[1] = "Failed to generate natal chart")
        /\ (result.success =>
                {"name", "birth_data", "placements", "houses", "aspects", "chart_svg",
                 "interpretation"} \subseteq DOMAIN result)
        /\ (result.success <=> lib.thrown = None)

\* C7 witness: the library threw after the chart was rendered and
\* generate_chart returned the failure dictionary
C7_Witness ==
    /\ pc = "check"
    /\ lib.called
    /\ lib.thrown # None
    /\ lib.behaviour.raiseAt > 3
    /\ ~result.success

\* the subject the library computed in this invocation
TheSubject == LibSubject(lib.behaviour.v)

\* the text of one table entry under its header
Reading(header, sign, table, fallback) ==
    <<header, sign, "**: ", IF \E i \in 1..12 : ZodiacSigns[i] = sign THEN table[sign] ELSE fallback>>

\* C8: the interpretation has exactly the keys sun, moon and rising; each text
\* is the header naming the sign, then that sign's string of the matching table
\* for the twelve signs and the fixed fallback for any other sign value; the
\* lookup itself never fails.
C8_InterpretationLookup ==
    /\ (lib.called /\ lib.thrown = None => OnSuccessPath)
    /\ (OnSuccessPath =>
        /\ DOMAIN result.interpretation = {"sun", "moon", "rising"}
        /\ result.interpretation.sun =
              Reading("<U+2609> **Sun in ", TheSubject["sun"].sign,
                      sun_interpretations, "Your core identity.")
        /\ result.interpretation.moon =
              Reading("<U+263D> **Moon in ", TheSubject["moon"].sign,
                      moon_interpretations, "Your emotional nature.")
        /\ result.interpretation.rising =
              Reading("<U+2191> **Rising ", TheSubject["first_house"].sign,
                      rising_interpretations, "How others see you."))

\* C8 witness: a chart whose Sun sign is in the tables, whose Moon sign is a
\* different sign of the tables and whose rising sign is not in the tables
C8_Witness ==
    /\ OnSuccessPath
    /\ TheSubject["sun"].sign = "Capricorn"
    /\ TheSubject["moon"].sign = "Ari"
    /\ TheSubject["first_house"].sign = "Aries"
    /\ result.interpretation.moon[4] = "Your emotional nature."

\* h hundredths is the float k/1024 rounded to two decimals: no hundredth is nearer
NearestHundredth(h, k) ==
    LET diff == 1024 * h - 100 * k
    IN  -512 <= diff /\ diff <= 512

\* h hundredths and k/1024 are the same number
SameNumber(h, k) == 1024 * h = 100 * k

\* the line of a text that starts at chunk i, up to its newline
LineFrom(text, i) ==
    LET e == CHOOSE j \in i..(Len(text) + 1) :
                 /\ j = Len(text) + 1 \/ text[j] = "\n"
                 /\ \A k \in i..(j - 1) : text[k] # "\n"
    IN  SubSeq(text, i, e - 1)

\* the lines of a text that start with the chunk mark, in order
LinesMarked(text, mark) ==
    LET starts == {i \in 1..Len(text) : text[i] = mark /\ (i = 1 \/ text[i - 1] = "\n")}
    IN  [k \in 1..Cardinality(starts) |->
            LineFrom(text, CHOOSE i \in starts : Cardinality({j \in starts : j < i}) = k - 1)]

\* the lines of the displayed text that show a placement
PlacementLines == LinesMarked(ret.text, "**")

\* the lines of the displayed text that show an aspect
AspectLines == LinesMarked(ret.text, "- ")

TheHouseKeys ==
    <<"House 1", "House 2", "House 3", "House 4", "House 5", "House 6",
      "House 7", "House 8", "House 9", "House 10", "House 11", "House 12">>

ThePlanetKeys ==
    <<"Sun", "Moon", "Mercury", "Venus", "Mars", "Jupiter", "Saturn",
      "Uranus", "Neptune", "Pluto">>

\* houses has exactly the twelve keys, 'House i' holding the sign of the
\* library's i-th house
HousesOneToOne ==
    /\ DOMAIN result.houses = {TheHouseKeys[i] : i \in 1..12}
    /\ \A i \in 1..12 : result.houses[TheHouseKeys[i]] = TheSubject[HouseAttrs[i]].sign

\* placements has exactly the ten keys, each holding its planet's own sign,
\* house and retrograde flag
PlacementsOneToOne ==
    /\ DOMAIN result.placements = {ThePlanetKeys[k] : k \in 1..10}
    /\ \A k \in 1..10 :
         LET held == result.placements[ThePlanetKeys[k]]
             own  == TheSubject[PlanetAttrs[k]]
         IN  /\ DOMAIN held = {"sign", "position", "house", "retrograde"}
             /\ held.sign = own.sign
             /\ held.house = own.house
             /\ held.retrograde = own.retrograde

\* the displayed text has one line per placement, in order, with the
\* retrograde mark exactly on the lines of the retrograde planets
PlacementLinesMarked ==
    LET lines == PlacementLines
    IN  /\ Len(lines) = 10
        /\ \A k \in 1..10 :
             LET line == lines[k]
             IN  /\ Len(line) > 4
                 /\ line[2] = ThePlanetKeys[k]
                 /\ line[4] = TheSubject[PlanetAttrs[k]].sign
                 /\ (line[Len(line)] = " <U+211E>" <=> TheSubject[PlanetAttrs[k]].retrograde)

\* C9 (as amended): houses and placements map the library's fields one to
\* one, the position held being the planet's own position rounded to two
\* decimals, and the displayed text has one line per placement with the
\* retrograde mark exactly when the planet is retrograde.
C9_FieldsOneToOne ==
    /\ (OnSuccessPath =>
            /\ HousesOneToOne
            /\ PlacementsOneToOne
            /\ \A k \in 1..10 :
                 NearestHundredth(result.placements[ThePlanetKeys[k]].position,
                                  TheSubject[PlanetAttrs[k]].position))
    /\ (Returned /\ OnSuccessPath => PlacementLinesMarked)

\* C9 witness: a chart was returned in which Mercury is retrograde and the Sun
\* is not, and Mercury's position has more than two decimals
C9_Witness ==
    /\ Returned
    /\ OnSuccessPath
    /\ TheSubject["mercury"].retrograde
    /\ ~TheSubject["sun"].retrograde
    /\ ~SameNumber(result.placements["Mercury"].position, TheSubject["mercury"].position)

\* C9 as stated: each placement holds the planet's own sign, position, house
\* and retrograde flag
C9_Original ==
    OnSuccessPath =>
        /\ HousesOneToOne
        /\ PlacementsOneToOne
        /\ \A k \in 1..10 :
             SameNumber(result.placements[ThePlanetKeys[k]].position,
                        TheSubject[PlanetAttrs[k]].position)

\* the aspects the library reported in this invocation
TheAspects ==
    IF lib.behaviour.hasAllAspects THEN LibAllAspects(lib.behaviour.v, lib.behaviour.n) ELSE << >>

Smaller(a, b) == IF a < b THEN a ELSE b

C10_NoAllAspectsReached ==
    Returned /\ OnSuccessPath /\ ~lib.behaviour.hasAllAspects /\ AspectLines = << >>

(***************************************************************************)
(* The city dropdown                                                       *)
(***************************************************************************)

\* this step changed the selection of the city dropdown
SelectionChanged == form'.city_dropdown # form.city_dropdown

\* the location fields hold the table's entry for the selected city
HoldsTableEntry ==
    /\ form.city_dropdown \in DOMAIN COMMON_CITIES
    /\ form.latitude  = COMMON_CITIES[form.city_dropdown][1]
    /\ form.longitude = COMMON_CITIES[form.city_dropdown][2]
    /\ form.timezone  = COMMON_CITIES[form.city_dropdown][3]
    /\ form.city      = <<form.city_dropdown>>

\* the location fields hold 0.0, 0.0, 'UTC' and an empty city name
HoldsFallback ==
    /\ form.city_dropdown \notin DOMAIN COMMON_CITIES
    /\ form.latitude  = <<"0.0">>
    /\ form.longitude = <<"0.0">>
    /\ form.timezone  = <<"UTC">>
    /\ form.city      = << >>

\* C11: every change of the city dropdown leaves the location fields holding
\* the table's latitude, longitude and timezone of the selected city with the
\* selection as city name when the selection is a key of COMMON_CITIES, and
\* 0.0, 0.0, 'UTC' and an empty city name for every other selection,
\* whatever the fields held before the change.
C11_CityChangeFills ==
    [][SelectionChanged => (HoldsTableEntry \/ HoldsFallback)']_vars

\* Tokyo was selected after the user had typed other values: what the fields
\* held is overwritten by the table's entry (the timezone can only have come
\* from the table, and the typed latitude is gone)
C11_Witness ==
    /\ form.city_dropdown = "Tokyo, Japan"
    /\ form.latitude  = <<"35.6762">>
    /\ form.longitude = <<"139.6503">>
    /\ form.timezone  = <<"Asia/Tokyo">>
    /\ form.city      = <<"Tokyo, Japan">>

\* the selection went back to 'Custom Location': the fields hold the fallback
C11_FallbackReached ==
    /\ form.city_dropdown = "Custom Location"
    /\ HoldsFallback

\* the timezones fill_city_coords can return that the timezone dropdown
\* does not offer
TimezonesNotOffered ==
    {fill_city_coords(sel).timezone : sel \in CityChoices} \ TimezoneChoices

\* C12: after any sequence of city-dropdown changes the value the timezone
\* dropdown holds is one of the choices get_timezone_suggestions gave it.
C12_TimezoneIsAChoice == form.timezone \in TimezoneChoices

\* the two ways the dropdown comes to hold a value outside its choices
C12_SaoPauloReached ==
    form.city_dropdown = "S<U+00E3>o Paulo, Brazil" /\ form.timezone = <<"America/Sao_Paulo">>

C12_UtcReached ==
    form.city_dropdown = "Custom Location" /\ form.timezone = <<"UTC">>

====
